---- MODULE Spec2Model ----
(***************************************************************************)
(* CrediLocker: the screen components FieldProject, CommunityEngagement,   *)
(* CoCurricular and LandingPage over the remote data store.                *)
(*                                                                         *)
(* One browser session: a component is mounted for the logged-in user, its *)
(* handlers write rows to the store and issue fetches whose responses      *)
(* arrive later, in any order, or fail.  A response that arrives after the *)
(* component was unmounted changes nothing, so mounting drops the          *)
(* responses still in flight.  A query is answered from the table as it is *)
(* when the query is sent.                                                 *)
(***************************************************************************)
EXTENDS Integers, Sequences, FiniteSets, TLC

\* ---------------------------------------------------------------- bounds
MaxRows == 2         \* rows inserted into the store in one behaviour
MaxInflight == 1     \* responses in flight, beyond which no handler sends another
MaxHours == 2        \* largest hours value entered in a form
MaxDup == 2          \* rows of one (student, document type) in a given table
MaxActivities == 2   \* activities in a given table
MaxAttendance == 2   \* attendance rows in a given table
MaxTiers == 2        \* tiers in a given credits_config
MaxAccess == 2       \* page ids getAccessiblePages returns for one role
MaxCsvRows == 2      \* data rows of a given CSV file
MaxCell == 2         \* characters of a semester cell of a given CSV file
MaxSubs == 2         \* cep_submissions rows of one student in a given table

\* ------------------------------------------------------- program constants
Students == {"s1", "s2"}
Teachers == {"t1"}
Classes == {"FYIT", "FYSD", "SYIT", "SYSD"}
documentTypes == {"completion_letter", "outcome_form", "feedback_form", "video_presentation"}
NoUser == [id |-> "", role |-> "none", class |-> ""]
\* The roster the students table holds before any ManageClasses operation:
\* rows [uid, class, name, semester], semester <<>> for null and <<n>> for n
\* (email and phone_number are carried like name and left out).
Roster == {[uid |-> "s1", class |-> "FYIT", name |-> "a", semester |-> <<>>],
           [uid |-> "s2", class |-> "FYSD", name |-> "a", semester |-> <<>>]}
ClassOf(uid) == IF \E s \in Roster : s.uid = uid
                THEN (CHOOSE s \in Roster : s.uid = uid).class ELSE ""
Users == {[id |-> s, role |-> "student", class |-> ClassOf(s)] : s \in Students}
         \cup {[id |-> t, role |-> "teacher", class |-> ""] : t \in Teachers}
TeacherUsers == {u \in Users : u.role = "teacher"}

VARIABLES
  \* the remote store
  dbFieldProject,   \* field_project_submissions: rows [id, student_uid, class, document_type]
  fpNextId,
  dbCep,            \* cep_submissions: rows [id, student_uid, hours]
  cepNextId,
  dbReq,            \* cep_requirements: rows [id, assigned_class, minimum_hours, credits_config]
  reqNextId,
  dbActivities,     \* co_curricular_activities: rows [id, assigned_class, date, cc_points]
  ccNextId,
  dbAttendance,     \* co_curricular_attendance: rows [activity_id, student_uid, attendance_status]
  dbStudents,       \* students: rows [uid, class, name, semester]
  \* the session
  screen,           \* which component is mounted
  currentUser,      \* localStorage currentUser / the role, studentUid, studentClass props
  inflight,         \* responses not yet delivered to the mounted component
  \* FieldProject's state
  fpSubmissions, fpUploading, fpStudents,
  \* CommunityEngagement's state
  ceSubmissions, ceStudents, newSubmission,
  ceRequirements, showForm, newRequirement, editingRequirementId,
  \* CoCurricular's state
  activities, studentClass, newActivity, ccShowForm,
  \* LandingPage's state
  studentsWithAllDocs, cepUniqueStudents, activityOptions, selectedActivityId,
  attendanceCountsBySelected, fieldCounts, attendanceStats,
  \* what the exports hand to the spreadsheet library
  cepReport, attendanceReport,
  \* Navigation's state, and the last call of onPageChange: [page, role of the user]
  isMobile, mobileOpen, lastPageChange,
  \* ManageClasses' state
  mcStudents, mcLoading, editingUid, editDraft, bulkClass, bulkNewSemester,
  \* what the components are given from outside
  accessTable,      \* getAccessiblePages: the accessible page ids of each role
  csvFile           \* the file chosen in the Upload CSV input

dbFpVars == <<dbFieldProject, fpNextId>>
dbCepVars == <<dbCep, cepNextId>>
dbReqVars == <<dbReq, reqNextId>>
dbCcVars == <<dbActivities, ccNextId>>
dbVars == <<dbFpVars, dbCepVars, dbReqVars, dbCcVars, dbAttendance, dbStudents>>
session == <<screen, currentUser>>
fpVars == <<fpSubmissions, fpUploading, fpStudents>>
ceFormVars == <<showForm, newRequirement, editingRequirementId>>
ceVars == <<ceSubmissions, ceStudents, newSubmission, ceRequirements, ceFormVars>>
ccVars == <<activities, studentClass, newActivity, ccShowForm>>
lpVars == <<studentsWithAllDocs, cepUniqueStudents, activityOptions, selectedActivityId,
            attendanceCountsBySelected, fieldCounts, attendanceStats>>
outVars == <<cepReport, attendanceReport>>
navVars == <<isMobile, mobileOpen, lastPageChange>>
mcVars == <<mcStudents, mcLoading, editingUid, editDraft, bulkClass, bulkNewSemester>>
envVars == <<accessTable, csvFile>>
vars == <<dbVars, session, inflight, fpVars, ceVars, ccVars, lpVars, outVars, navVars, mcVars,
          envVars>>

\* ----------------------------------------------------------------- helpers
RECURSIVE OrderByIdDesc(_)
\* .order('uploaded_at' / 'submitted_at' / 'created_at', { ascending: false }):
\* ids are handed out in insertion order, so the newest row has the largest id.
OrderByIdDesc(rows) ==
  IF rows = {} THEN <<>>
  ELSE LET m == CHOOSE r \in rows : \A q \in rows : q.id <= r.id
       IN <<m>> \o OrderByIdDesc(rows \ {m})

Range(seq) == {seq[i] : i \in 1..Len(seq)}
RemoveAt(seq, i) == SubSeq(seq, 1, i - 1) \o SubSeq(seq, i + 1, Len(seq))
\* Array.prototype.find over the outcomes of its test, one per element: the
\* index of the first element that passes, 0 if none.
FindIndex(passes) ==
  IF \E i \in DOMAIN passes : passes[i]
  THEN CHOOSE i \in DOMAIN passes : passes[i] /\ \A j \in 1..(i - 1) : ~passes[j]
  ELSE 0

\* The store still accepts an insert (the bound on the ids it hands out).
CanInsert ==
  (fpNextId - 1) + (cepNextId - 1) + (reqNextId - 1) + (ccNextId - 1) < MaxRows

\* A response in flight: the setter it feeds, the data, and what the awaiting
\* handler does once it has returned.
Response(op, data, done) == [op |-> op, data |-> data, done |-> done]

\* ------------------------------------------------- initial component state
\* useState's initial newRequirement; editingRequirementId 0 stands for null.
EmptyRequirement == [assigned_class |-> "", minimum_hours |-> 0]
EmptySubmission == [hours |-> 0, files |-> FALSE]
\* useState's initial newActivity; id 0 stands for null, date 0 for ''.
\* filled: title, time and venue are all entered.
EmptyActivity == [id |-> 0, filled |-> FALSE, date |-> 0, classes |-> {}]
NoCounts == [present |-> 0, absent |-> 0]
\* No report has been exported yet.
NoCepReport == [class |-> "", rows |-> <<>>]
NoAttendanceReport == [class |-> "", header |-> <<>>, rows |-> <<>>]

\* The edit draft {} of ManageClasses.
EmptyDraft == [class |-> "", name |-> "", semester |-> <<>>]
\* getAccessiblePages and the file input when a specification does not use them.
NoAccess == [r \in {"student", "teacher"} |-> {}]
NoFile == [header |-> {}, rows |-> <<>>]
\* onPageChange has not been called.
NoPageChange == [page |-> "", role |-> "none"]

FP_Reset ==
  /\ fpSubmissions' = <<>>
  /\ fpUploading' = {}
  /\ fpStudents' = {}

CE_Reset ==
  /\ ceSubmissions' = <<>>
  /\ ceStudents' = {}
  /\ newSubmission' = EmptySubmission
  /\ ceRequirements' = <<>>
  /\ showForm' = FALSE
  /\ newRequirement' = EmptyRequirement
  /\ editingRequirementId' = 0

CC_Reset ==
  /\ activities' = <<>>
  /\ studentClass' = ""
  /\ newActivity' = EmptyActivity
  /\ ccShowForm' = FALSE

LP_Reset ==
  /\ studentsWithAllDocs' = 0
  /\ cepUniqueStudents' = 0
  /\ activityOptions' = <<>>
  /\ selectedActivityId' = 0
  /\ attendanceCountsBySelected' = NoCounts
  /\ fieldCounts' = [t \in documentTypes |-> 0]
  /\ attendanceStats' = NoCounts

MC_Reset ==
  /\ mcStudents' = {}
  /\ mcLoading' = FALSE
  /\ editingUid' = ""
  /\ editDraft' = EmptyDraft
  /\ bulkClass' = ""
  /\ bulkNewSemester' = <<>>

\* The state of every component after construction.
InitComponents ==
  /\ screen = "none" /\ currentUser = NoUser /\ inflight = <<>>
  /\ fpSubmissions = <<>> /\ fpUploading = {} /\ fpStudents = {}
  /\ ceSubmissions = <<>> /\ ceStudents = {} /\ newSubmission = EmptySubmission
  /\ ceRequirements = <<>> /\ showForm = FALSE
  /\ newRequirement = EmptyRequirement /\ editingRequirementId = 0
  /\ activities = <<>> /\ studentClass = "" /\ newActivity = EmptyActivity
  /\ ccShowForm = FALSE
  /\ studentsWithAllDocs = 0 /\ cepUniqueStudents = 0 /\ activityOptions = <<>>
  /\ selectedActivityId = 0 /\ attendanceCountsBySelected = NoCounts
  /\ fieldCounts = [t \in documentTypes |-> 0] /\ attendanceStats = NoCounts
  /\ cepReport = NoCepReport /\ attendanceReport = NoAttendanceReport
  /\ isMobile = FALSE /\ mobileOpen = FALSE /\ lastPageChange = NoPageChange
  /\ mcStudents = {} /\ mcLoading = FALSE /\ editingUid = "" /\ editDraft = EmptyDraft
  /\ bulkClass = "" /\ bulkNewSemester = <<>>

InitLocal == InitComponents /\ accessTable = NoAccess /\ csvFile = NoFile

\* ------------------------------------------------------------ FieldProject
\* A fetchStudentSubmissions that leaves out .eq('student_uid', studentUid).
FP_fetchStudentSubmissions_NoFilter(db, uid, done) ==
  Response("fpSubmissions", OrderByIdDesc(db), done)

\* fetchStudentSubmissions: .select('*').eq('student_uid', studentUid), newest first.
\* db is the table as the query finds it; done is the type whose upload awaits it.
FP_fetchStudentSubmissions(db, uid, done) ==
  Response("fpSubmissions", OrderByIdDesc({r \in db : r.student_uid = uid}), done)
\* fetchAllSubmissions: .select('*'), newest first.
FP_fetchAllSubmissions(db) ==
  Response("fpSubmissions", OrderByIdDesc(db), "")
FP_fetchStudents ==
  Response("fpStudents", dbStudents, "")

\* getStudentSubmission(type): index of the first submission of that type, 0 if none
getStudentSubmission(type) ==
  FindIndex([i \in DOMAIN fpSubmissions |-> fpSubmissions[i].document_type = type])

\* The student view offers the file input of a type only while no submission of
\* that type is in the local list, and disables it while that type is uploading.
UploadInputShown(type) ==
  /\ getStudentSubmission(type) = 0
  /\ type \notin fpUploading

\* FieldProject mounts for user u: the initial state and the mount effect.
MountFieldProject(u) ==
  /\ screen' = "field-project"
  /\ currentUser' = u
  /\ FP_Reset /\ CE_Reset /\ CC_Reset /\ LP_Reset
  /\ inflight' = IF u.role = "student"
                 THEN <<FP_fetchStudentSubmissions(dbFieldProject, u.id, "")>>
                 ELSE <<FP_fetchAllSubmissions(dbFieldProject), FP_fetchStudents>>
  /\ MC_Reset
  /\ UNCHANGED <<dbVars, outVars, navVars, envVars>>

\* handleFileUpload(file, type), called from the file input of the student view.
\* storageOk, insertOk: whether the storage upload and the insert succeed.
handleFileUpload(type, storageOk, insertOk) ==
  /\ screen = "field-project"
  /\ currentUser.role = "student"
  /\ UploadInputShown(type)
  /\ IF storageOk /\ insertOk
     THEN /\ CanInsert
          /\ Len(inflight) < MaxInflight
          /\ dbFieldProject' = dbFieldProject \cup
               {[id |-> fpNextId, student_uid |-> currentUser.id,
                 class |-> currentUser.class, document_type |-> type]}
          /\ fpNextId' = fpNextId + 1
          \* uploading[type] stays true until the awaited refetch returns
          /\ fpUploading' = fpUploading \cup {type}
          /\ inflight' = Append(inflight,
               FP_fetchStudentSubmissions(dbFieldProject', currentUser.id, type))
          /\ UNCHANGED <<fpSubmissions, fpStudents>>
     ELSE \* the catch block alerts, finally resets uploading[type]
          UNCHANGED <<dbFpVars, fpVars, inflight>>
  /\ UNCHANGED <<dbCepVars, dbReqVars, dbCcVars, dbAttendance, dbStudents, session,
                 ceVars, ccVars, lpVars, outVars,
                 navVars, mcVars, envVars>>

\* The rows whose Delete button the view shows: for a student the first
\* submission of each type, for a teacher every submission of the list.
DeleteButtons ==
  IF currentUser.role = "student"
  THEN {fpSubmissions[getStudentSubmission(t)] :
          t \in {x \in documentTypes : getStudentSubmission(x) # 0}}
  ELSE Range(fpSubmissions)

\* handleDelete(submissionId, type). confirmed: the confirm() answer;
\* deleteOk: whether the store's delete succeeds.
handleDelete(sub, confirmed, deleteOk) ==
  /\ screen = "field-project"
  /\ sub \in DeleteButtons
  /\ IF confirmed /\ deleteOk
     THEN /\ Len(inflight) < MaxInflight
          /\ dbFieldProject' = {r \in dbFieldProject : r.id # sub.id}
          /\ inflight' = Append(inflight,
               IF currentUser.role = "student"
               THEN FP_fetchStudentSubmissions(dbFieldProject', currentUser.id, "")
               ELSE FP_fetchAllSubmissions(dbFieldProject'))
     ELSE UNCHANGED <<dbFieldProject, inflight>>
  /\ UNCHANGED <<fpNextId, dbCepVars, dbReqVars, dbCcVars, dbAttendance, dbStudents, session,
                 fpVars, ceVars, ccVars, lpVars, outVars,
                 navVars, mcVars, envVars>>

\* --------------------------------------------------- CommunityEngagement
\* fetchStudentSubmissions: .select('*').eq('student_uid', user.id), newest first.
CE_fetchStudentSubmissions(db, uid) ==
  Response("ceSubmissions", OrderByIdDesc({r \in db : r.student_uid = uid}), "")
CE_fetchAllSubmissions(db) ==
  Response("ceSubmissions", OrderByIdDesc(db), "")
CE_fetchStudents ==
  Response("ceStudents", dbStudents, "")
\* fetchRequirements: .select('*').order('created_at', { ascending: false })
fetchRequirements(db) ==
  Response("ceRequirements", OrderByIdDesc(db), "")

\* CommunityEngagement mounts for user u.
MountCommunityEngagement(u) ==
  /\ screen' = "community-engagement"
  /\ currentUser' = u
  /\ FP_Reset /\ CE_Reset /\ CC_Reset /\ LP_Reset
  /\ inflight' = IF u.role = "student"
                 THEN <<fetchRequirements(dbReq), CE_fetchStudentSubmissions(dbCep, u.id)>>
                 ELSE <<fetchRequirements(dbReq), CE_fetchAllSubmissions(dbCep), CE_fetchStudents>>
  /\ MC_Reset
  /\ UNCHANGED <<dbVars, outVars, navVars, envVars>>

\* The student form's inputs: setNewSubmission({...newSubmission, hours / files}).
setNewSubmission(hours, files) ==
  /\ screen = "community-engagement"
  /\ currentUser.role = "student"
  /\ newSubmission' = [hours |-> hours, files |-> files]
  /\ UNCHANGED <<dbVars, session, inflight, fpVars, ceSubmissions, ceStudents,
                 ceRequirements, ceFormVars, ccVars, lpVars, outVars,
                 navVars, mcVars, envVars>>

\* handleSubmitActivity. uploading is true only between the handler's awaits,
\* and the handler is one step here. uploadsOk: both storage uploads succeed;
\* insertOk: the insert succeeds.
handleSubmitActivity(uploadsOk, insertOk) ==
  /\ screen = "community-engagement"
  /\ currentUser.role = "student"
  /\ IF newSubmission.files /\ uploadsOk /\ insertOk
     THEN /\ CanInsert
          /\ Len(inflight) < MaxInflight
          /\ dbCep' = dbCep \cup {[id |-> cepNextId, student_uid |-> currentUser.id,
                                   hours |-> newSubmission.hours]}
          /\ cepNextId' = cepNextId + 1
          /\ inflight' = Append(inflight, CE_fetchStudentSubmissions(dbCep', currentUser.id))
          /\ newSubmission' = EmptySubmission
     ELSE UNCHANGED <<dbCepVars, inflight, newSubmission>>
  /\ UNCHANGED <<dbFpVars, dbReqVars, dbCcVars, dbAttendance, dbStudents, session,
                 fpVars, ceSubmissions, ceStudents, ceRequirements, ceFormVars,
                 ccVars, lpVars, outVars,
                 navVars, mcVars, envVars>>

\* The teacher view's header button: setShowForm(!showForm).
toggleShowForm ==
  /\ screen = "community-engagement"
  /\ currentUser.role = "teacher"
  /\ showForm' = ~showForm
  /\ UNCHANGED <<dbVars, session, inflight, fpVars, ceSubmissions, ceStudents,
                 newSubmission, ceRequirements, newRequirement, editingRequirementId,
                 ccVars, lpVars, outVars,
                 navVars, mcVars, envVars>>

\* The requirement form's inputs: setNewRequirement({...newRequirement, field}).
setNewRequirement(class, hours) ==
  /\ screen = "community-engagement"
  /\ currentUser.role = "teacher"
  /\ showForm
  /\ newRequirement' = [assigned_class |-> class, minimum_hours |-> hours]
  /\ UNCHANGED <<dbVars, session, inflight, fpVars, ceSubmissions, ceStudents,
                 newSubmission, ceRequirements, showForm, editingRequirementId,
                 ccVars, lpVars, outVars,
                 navVars, mcVars, envVars>>

\* The row an insert of newRequirement creates; credits_config is not among
\* the inserted columns.
NewRequirementRow ==
  [id |-> reqNextId, assigned_class |-> newRequirement.assigned_class,
   minimum_hours |-> newRequirement.minimum_hours, credits_config |-> <<>>]

\* .update({...newRequirement}).eq('id', editingRequirementId)
UpdateRequirement(db) ==
  {IF r.id = editingRequirementId
   THEN [r EXCEPT !.assigned_class = newRequirement.assigned_class,
                  !.minimum_hours = newRequirement.minimum_hours]
   ELSE r : r \in db}

\* The table after handleAddRequirement's write.
WriteRequirement(db) ==
  IF editingRequirementId # 0 THEN UpdateRequirement(db) ELSE db \cup {NewRequirementRow}

\* handleAddRequirement, the form's submit (the class select is required).
\* ok: the update or insert succeeds.
handleAddRequirement(ok) ==
  /\ screen = "community-engagement"
  /\ currentUser.role = "teacher"
  /\ showForm
  /\ newRequirement.assigned_class # ""
  /\ IF ok
     THEN /\ editingRequirementId = 0 => CanInsert
          /\ Len(inflight) < MaxInflight
          /\ dbReq' = WriteRequirement(dbReq)
          /\ reqNextId' = IF editingRequirementId # 0 THEN reqNextId ELSE reqNextId + 1
          /\ inflight' = Append(inflight, fetchRequirements(dbReq'))
          /\ newRequirement' = EmptyRequirement
          /\ editingRequirementId' = 0
          /\ showForm' = FALSE
     ELSE UNCHANGED <<dbReqVars, inflight, ceFormVars>>
  /\ UNCHANGED <<dbFpVars, dbCepVars, dbCcVars, dbAttendance, dbStudents, session,
                 fpVars, ceSubmissions, ceStudents, newSubmission, ceRequirements,
                 ccVars, lpVars, outVars,
                 navVars, mcVars, envVars>>

\* handleEditRequirement(req), the Edit button of a listed requirement.
handleEditRequirement(req) ==
  /\ screen = "community-engagement"
  /\ currentUser.role = "teacher"
  /\ req \in Range(ceRequirements)
  /\ newRequirement' = [assigned_class |-> req.assigned_class, minimum_hours |-> req.minimum_hours]
  /\ editingRequirementId' = req.id
  /\ showForm' = TRUE
  /\ UNCHANGED <<dbVars, session, inflight, fpVars, ceSubmissions, ceStudents,
                 newSubmission, ceRequirements, ccVars, lpVars, outVars,
                 navVars, mcVars, envVars>>

\* handleDeleteRequirement(id), the Delete button of a listed requirement.
handleDeleteRequirement(req, confirmed, ok) ==
  /\ screen = "community-engagement"
  /\ currentUser.role = "teacher"
  /\ req \in Range(ceRequirements)
  /\ IF confirmed /\ ok
     THEN /\ Len(inflight) < MaxInflight
          /\ dbReq' = {r \in dbReq : r.id # req.id}
          /\ inflight' = Append(inflight, fetchRequirements(dbReq'))
     ELSE UNCHANGED <<dbReq, inflight>>
  /\ UNCHANGED <<dbFpVars, dbCepVars, reqNextId, dbCcVars, dbAttendance, dbStudents, session,
                 fpVars, ceVars, ccVars, lpVars, outVars,
                 navVars, mcVars, envVars>>

\* getRequirementForStudent: the first listed requirement of the student's
\* class (its index, 0 if none).
getRequirementForStudent ==
  FindIndex([i \in DOMAIN ceRequirements |->
               ceRequirements[i].assigned_class = currentUser.class])

\* ------------------------------------------------------------ CoCurricular
\* The classes ticked and the dates entered in the activity form.
FormClasses == {"FYIT", "FYSD"}
FormDates == {1, 2}

\* fetchActivities as called from a render whose closure holds role r and
\* studentClass c ("" for null): the list its response sets, newest first,
\* filtered by assigned_class for a student whose class the closure knows.
fetchActivities(db, r, c, done) ==
  LET Assigned(a) == c \in a.assigned_class
  IN Response("activities",
              IF r = "student" /\ c # ""
              THEN SelectSeq(OrderByIdDesc(db), Assigned)
              ELSE OrderByIdDesc(db),
              done)

\* CoCurricular mounts for user u. The mount effect reads currentUser, calls
\* setStudentClass and fetchActivities; that fetchActivities belongs to the
\* first render, whose studentClass is the initial null.
MountCoCurricular(u) ==
  /\ screen' = "co-curricular"
  /\ currentUser' = u
  /\ FP_Reset /\ CE_Reset /\ LP_Reset
  /\ activities' = <<>>
  /\ newActivity' = EmptyActivity
  /\ ccShowForm' = FALSE
  /\ studentClass' = IF u.role = "student" THEN u.class ELSE ""
  /\ inflight' = <<fetchActivities(dbActivities, u.role, "", "")>>
  /\ MC_Reset
  /\ UNCHANGED <<dbVars, outVars, navVars, envVars>>

\* A header button that flips the requirement form of CommunityEngagement
\* along with its own.
toggleActivityForm_SharedForm ==
  /\ screen = "co-curricular"
  /\ currentUser.role = "teacher"
  /\ newActivity' = EmptyActivity
  /\ ccShowForm' = ~ccShowForm
  /\ showForm' = ~showForm
  /\ UNCHANGED <<dbVars, session, inflight, fpVars, ceSubmissions, ceStudents, newSubmission,
                 ceRequirements, newRequirement, editingRequirementId, activities,
                 studentClass, lpVars, outVars, navVars, mcVars, envVars>>

\* A header button that keeps what the form holds.
toggleActivityForm_KeepDraft ==
  /\ screen = "co-curricular"
  /\ currentUser.role = "teacher"
  /\ ccShowForm' = ~ccShowForm
  /\ UNCHANGED <<dbVars, session, inflight, fpVars, ceVars, activities, studentClass,
                 newActivity, lpVars, outVars, navVars, mcVars, envVars>>

\* The header's Add Activity / Cancel button.
toggleActivityForm ==
  /\ screen = "co-curricular"
  /\ currentUser.role = "teacher"
  /\ newActivity' = EmptyActivity
  /\ ccShowForm' = ~ccShowForm
  /\ UNCHANGED <<dbVars, session, inflight, fpVars, ceVars, activities, studentClass,
                 lpVars, outVars,
                 navVars, mcVars, envVars>>

\* The form's text and date inputs: setNewActivity({...newActivity, field}).
setNewActivity(filled, date) ==
  /\ screen = "co-curricular"
  /\ currentUser.role = "teacher"
  /\ ccShowForm
  /\ newActivity' = [newActivity EXCEPT !.filled = filled, !.date = date]
  /\ UNCHANGED <<dbVars, session, inflight, fpVars, ceVars, activities, studentClass,
                 ccShowForm, lpVars, outVars,
                 navVars, mcVars, envVars>>

\* handleCheckboxChange(className)
handleCheckboxChange(className) ==
  /\ screen = "co-curricular"
  /\ currentUser.role = "teacher"
  /\ ccShowForm
  /\ newActivity' = [newActivity EXCEPT !.classes =
                       IF className \in @ THEN @ \ {className} ELSE @ \cup {className}]
  /\ UNCHANGED <<dbVars, session, inflight, fpVars, ceVars, activities, studentClass,
                 ccShowForm, lpVars, outVars,
                 navVars, mcVars, envVars>>

\* The table after handleAddOrUpdateActivity's write: an update of the row
\* newActivity.id when that id is set, an insert otherwise (cc_points is not
\* among the written columns).
WriteActivity(db) ==
  IF newActivity.id # 0
  THEN {IF a.id = newActivity.id
        THEN [a EXCEPT !.assigned_class = newActivity.classes, !.date = newActivity.date]
        ELSE a : a \in db}
  ELSE db \cup {[id |-> ccNextId, assigned_class |-> newActivity.classes,
                 date |-> newActivity.date, cc_points |-> <<>>]}

\* handleAddOrUpdateActivity, the form's submit. ok: the write succeeds.
\* The form is reset and hidden after the awaited fetchActivities returns.
handleAddOrUpdateActivity(ok) ==
  /\ screen = "co-curricular"
  /\ currentUser.role = "teacher"
  /\ ccShowForm
  /\ IF newActivity.filled /\ newActivity.date # 0 /\ newActivity.classes # {} /\ ok
     THEN /\ newActivity.id = 0 => CanInsert
          /\ Len(inflight) < MaxInflight
          /\ dbActivities' = WriteActivity(dbActivities)
          /\ ccNextId' = IF newActivity.id # 0 THEN ccNextId ELSE ccNextId + 1
          /\ inflight' = Append(inflight,
               fetchActivities(dbActivities', currentUser.role, studentClass, "resetForm"))
     ELSE UNCHANGED <<dbCcVars, inflight>>
  /\ UNCHANGED <<dbFpVars, dbCepVars, dbReqVars, dbAttendance, dbStudents, session,
                 fpVars, ceVars, ccVars, lpVars, outVars,
                 navVars, mcVars, envVars>>

\* handleEdit(activity), the Edit button of a listed activity.
handleEdit(activity) ==
  /\ screen = "co-curricular"
  /\ currentUser.role = "teacher"
  /\ activity \in Range(activities)
  /\ newActivity' = [id |-> activity.id, filled |-> TRUE, date |-> activity.date,
                     classes |-> activity.assigned_class]
  /\ ccShowForm' = TRUE
  /\ UNCHANGED <<dbVars, session, inflight, fpVars, ceVars, activities, studentClass,
                 lpVars, outVars,
                 navVars, mcVars, envVars>>

\* handleDelete(id) of CoCurricular, the Delete button of a listed activity.
CC_handleDelete(activity, ok) ==
  /\ screen = "co-curricular"
  /\ currentUser.role = "teacher"
  /\ activity \in Range(activities)
  /\ IF ok
     THEN /\ Len(inflight) < MaxInflight
          /\ dbActivities' = {a \in dbActivities : a.id # activity.id}
          /\ inflight' = Append(inflight,
               fetchActivities(dbActivities', currentUser.role, studentClass, ""))
     ELSE UNCHANGED <<dbActivities, inflight>>
  /\ UNCHANGED <<dbFpVars, dbCepVars, dbReqVars, ccNextId, dbAttendance, dbStudents, session,
                 fpVars, ceVars, ccVars, lpVars, outVars,
                 navVars, mcVars, envVars>>

\* ------------------------------------------------------------- LandingPage
\* The dashboard's queries do not look at the error of a response; they are
\* modelled as answered from the tables. The tallies that need today's date
\* (new today, the 7-day trend, upcoming activities) are left out.
requiredTypes == {"completion_letter", "outcome_form", "feedback_form", "video_presentation"}

\* studentDocs[uid].types: the set of document types among the student's rows.
studentDocs(rows) ==
  [uid \in {r.student_uid : r \in rows} |->
     {r.document_type : r \in {q \in rows : q.student_uid = uid}}]

\* An allDocsCount that counts a student whose rows number at least four.
allDocsCount_ByRows(rows) ==
  Cardinality({uid \in {r.student_uid : r \in rows} :
                 Cardinality({q \in rows : q.student_uid = uid}) >= Cardinality(requiredTypes)})

\* allDocsCount: the students whose set of types has the size of requiredTypes
\* and holds every required type.
allDocsCount(rows) ==
  LET docs == studentDocs(rows)
  IN Cardinality({uid \in DOMAIN docs :
                    /\ Cardinality(requiredTypes) = Cardinality(docs[uid])
                    /\ \A t \in requiredTypes : t \in docs[uid]})

\* Object.keys(cepStudentMap).length
cepStudentCount(rows) == Cardinality({r.student_uid : r \in rows})

RECURSIVE OrderByDateDesc(_)
\* .order('date', { ascending: false }); rows of one date newest first.
OrderByDateDesc(rows) ==
  IF rows = {} THEN <<>>
  ELSE LET m == CHOOSE r \in rows :
                  \A q \in rows : q.date < r.date \/ (q.date = r.date /\ q.id <= r.id)
       IN <<m>> \o OrderByDateDesc(rows \ {m})

\* A tally that counts every row that is not 'present' as absent.
tally_RestAbsent(rows) ==
  [present |-> Cardinality({r \in rows : r.attendance_status = "present"}),
   absent |-> Cardinality({r \in rows : r.attendance_status # "present"})]

\* filter(r => r.attendance_status === 'present').length, and the same for 'absent'
tally(rows) ==
  [present |-> Cardinality({r \in rows : r.attendance_status = "present"}),
   absent |-> Cardinality({r \in rows : r.attendance_status = "absent"})]

\* computeCountsForActivity(activityId), and the same query of the
\* selectedActivityId effect and of the select's onChange: its response.
computeCountsForActivity(activityId) ==
  Response("lpCounts",
           [activity_id |-> activityId,
            counts |-> tally({r \in dbAttendance : r.activity_id = activityId})],
           "")

\* fetchTeacherDashboard up to its last query: what its setters receive.
fetchTeacherDashboard ==
  Response("lpTeacher",
           [allDocsCount |-> allDocsCount(dbFieldProject),
            cepUnique |-> cepStudentCount(dbCep),
            options |-> OrderByDateDesc(dbActivities)],
           "")

\* fetchStudentDashboard: the per-type counts of the student's documents and
\* the tally of the student's attendance rows.
fetchStudentDashboard(uid) ==
  Response("lpStudent",
           [counts |-> [t \in documentTypes |->
                          Cardinality({r \in dbFieldProject :
                                         r.student_uid = uid /\ r.document_type = t})],
            stats |-> tally({r \in dbAttendance : r.student_uid = uid})],
           "")

\* LandingPage mounts for user u.
MountLandingPage(u) ==
  /\ screen' = "landing"
  /\ currentUser' = u
  /\ FP_Reset /\ CE_Reset /\ CC_Reset /\ LP_Reset
  /\ inflight' = IF u.role = "student"
                 THEN <<fetchStudentDashboard(u.id)>>
                 ELSE <<fetchTeacherDashboard>>
  /\ MC_Reset
  /\ UNCHANGED <<dbVars, outVars, navVars, envVars>>

\* The requests in flight all ask for the counts of one activity.
AwaitingOneActivity ==
  \A i \in DOMAIN inflight, j \in DOMAIN inflight :
    /\ inflight[i].op = "lpCounts"
    /\ inflight[j].op = "lpCounts"
    /\ inflight[i].data.activity_id = inflight[j].data.activity_id

\* The activity select's onChange: setSelectedActivityId(id) and the handler's
\* own query; the selectedActivityId effect then sends the same query again.
\* The teacher picks an activity with fewer than MaxInflight requests in
\* flight, or while the counts of one activity are awaited.
selectActivity(id) ==
  /\ screen = "landing"
  /\ currentUser.role = "teacher"
  /\ id \in {o.id : o \in Range(activityOptions)}
  /\ id # selectedActivityId
  /\ Len(inflight) < MaxInflight \/ AwaitingOneActivity
  /\ selectedActivityId' = id
  /\ inflight' = inflight \o <<computeCountsForActivity(id), computeCountsForActivity(id)>>
  /\ UNCHANGED <<dbVars, session, fpVars, ceVars, ccVars, studentsWithAllDocs,
                 cepUniqueStudents, activityOptions, attendanceCountsBySelected,
                 fieldCounts, attendanceStats, outVars,
                 navVars, mcVars, envVars>>

\* fieldProjectPieData
fieldProjectPieData ==
  [Completed |-> studentsWithAllDocs,
   Incomplete |-> IF cepUniqueStudents - studentsWithAllDocs > 0
                  THEN cepUniqueStudents - studentsWithAllDocs ELSE 0]

RECURSIVE InIdOrder(_)
\* The rows of a select without an order clause, as stored: oldest id first.
InIdOrder(rows) ==
  IF rows = {} THEN <<>>
  ELSE LET m == CHOOSE r \in rows : \A q \in rows : r.id <= q.id
       IN <<m>> \o InIdOrder(rows \ {m})

RECURSIVE InUidOrder(_)
\* The students of a select without an order clause, as stored.
InUidOrder(rows) ==
  IF rows = {} THEN <<>>
  ELSE LET m == CHOOSE r \in rows : TRUE
       IN <<m>> \o InUidOrder(rows \ {m})

RECURSIVE SumHours(_)
\* studentSubs.reduce((sum, sub) => sum + sub.hours, 0)
SumHours(rows) ==
  IF rows = {} THEN 0
  ELSE LET r == CHOOSE r \in rows : TRUE
       IN r.hours + SumHours(rows \ {r})

RECURSIVE SortByHoursDesc(_)
\* [...creditConfig].sort((a, b) => b.hours - a.hours): a stable sort, tiers of
\* one threshold keep their stored order.
SortByHoursDesc(cfg) ==
  IF cfg = <<>> THEN <<>>
  ELSE LET i == CHOOSE i \in 1..Len(cfg) :
                  /\ \A j \in 1..Len(cfg) : cfg[j].hours <= cfg[i].hours
                  /\ \A j \in 1..(i - 1) : cfg[j].hours < cfg[i].hours
       IN <<cfg[i]>> \o SortByHoursDesc(RemoveAt(cfg, i))

\* A lookup that takes the first reached tier in stored order, without sorting.
creditsFor_Unsorted(creditConfig, hours) ==
  LET i == FindIndex([k \in DOMAIN creditConfig |-> hours >= creditConfig[k].hours])
  IN IF i = 0 THEN 0 ELSE creditConfig[i].credits

\* The tier lookup of exportCEPReportLanding: the first tier, in descending
\* threshold order, whose threshold the hours reach; 0 when there is none.
creditsFor(creditConfig, hours) ==
  LET sortedConfig == SortByHoursDesc(creditConfig)
      i == FindIndex([k \in DOMAIN sortedConfig |-> hours >= sortedConfig[k].hours])
  IN IF i = 0 THEN 0 ELSE sortedConfig[i].credits

\* req?.credits_config || [] for the first requirement of the class.
creditConfigOf(selectedClass) ==
  LET reqs == SelectSeq(InIdOrder(dbReq), LAMBDA r : r.assigned_class = selectedClass)
  IN IF reqs = <<>> THEN <<>> ELSE reqs[1].credits_config

\* A sum over every submission, whoever made it.
studentHours_All(uid) == SumHours(dbCep)

\* The hours of studentMap[uid]: the sum over the student's submissions.
studentHours(uid) == SumHours({sub \in dbCep : sub.student_uid = uid})

\* exportCEPReportLanding with selectedClass as the prompt's (trimmed) answer.
exportCEPReportLanding(selectedClass) ==
  /\ screen = "landing"
  /\ currentUser.role = "teacher"
  /\ selectedClass # ""
  /\ LET classStudents == SelectSeq(InUidOrder(dbStudents), LAMBDA s : s.class = selectedClass)
         creditConfig == creditConfigOf(selectedClass)
     IN cepReport' =
          [class |-> selectedClass,
           rows |-> [k \in 1..Len(classStudents) |->
                       [uid |-> classStudents[k].uid,
                        hoursCompleted |-> studentHours(classStudents[k].uid),
                        creditsAllocated |->
                          creditsFor(creditConfig, studentHours(classStudents[k].uid))]]]
  /\ UNCHANGED <<dbVars, session, inflight, fpVars, ceVars, ccVars, lpVars, attendanceReport,
                 navVars, mcVars, envVars>>

RECURSIVE SortByDateAsc(_)
\* .sort((a, b) => (a.date || '').localeCompare(b.date || '')): a stable sort,
\* dates as the integers their ISO strings order like.
SortByDateAsc(acts) ==
  IF acts = <<>> THEN <<>>
  ELSE LET i == CHOOSE i \in 1..Len(acts) :
                  /\ \A j \in 1..Len(acts) : acts[i].date <= acts[j].date
                  /\ \A j \in 1..(i - 1) : acts[i].date < acts[j].date
       IN <<acts[i]>> \o SortByDateAsc(RemoveAt(acts, i))

\* classActivities: the activities whose assigned_class includes the class,
\* by ascending date.
classActivitiesOf(selectedClass) ==
  SortByDateAsc(SelectSeq(InIdOrder(dbActivities),
                          LAMBDA a : selectedClass \in a.assigned_class))

\* attendanceMap.get(attendanceKey(aid, uid)); "" when there is no record.
\* The attendance table holds one row per (activity_id, student_uid).
attendanceMapGet(aid, uid) ==
  IF \E rec \in dbAttendance : rec.activity_id = aid /\ rec.student_uid = uid
  THEN (CHOOSE rec \in dbAttendance :
          rec.activity_id = aid /\ rec.student_uid = uid).attendance_status
  ELSE ""

\* The cell pushed for one activity.
cellOf(status) ==
  IF status = "present" THEN "Present"
  ELSE IF status = "absent" THEN "Absent" ELSE "-"

\* activity.cc_points || 0, cc_points being <<>> when the column is null.
pointsOf(activity) == IF activity.cc_points = <<>> THEN 0 ELSE activity.cc_points[1]

RECURSIVE totalPointsOf_AnyRecord(_, _)
\* A total that adds the points of every activity with a record, present or not.
totalPointsOf_AnyRecord(acts, uid) ==
  IF acts = <<>> THEN 0
  ELSE (IF attendanceMapGet(Head(acts).id, uid) # "" THEN pointsOf(Head(acts)) ELSE 0)
       + totalPointsOf_AnyRecord(Tail(acts), uid)

RECURSIVE totalPointsOf(_, _)
\* totalPoints after the loop over classActivities for one student.
totalPointsOf(acts, uid) ==
  IF acts = <<>> THEN 0
  ELSE (IF attendanceMapGet(Head(acts).id, uid) = "present" THEN pointsOf(Head(acts)) ELSE 0)
       + totalPointsOf(Tail(acts), uid)

\* exportAttendanceReportLanding with selectedClass as the prompt's (trimmed)
\* answer. The header is kept as the activities' ids, uid and name columns and
\* the 'Total CC Points' column as fields of the row.
exportAttendanceReportLanding(selectedClass) ==
  /\ screen = "landing"
  /\ currentUser.role = "teacher"
  /\ selectedClass # ""
  /\ LET classActivities == classActivitiesOf(selectedClass)
         classStudents == SelectSeq(InUidOrder(dbStudents), LAMBDA s : s.class = selectedClass)
     IN attendanceReport' =
          [class |-> selectedClass,
           header |-> [k \in 1..Len(classActivities) |-> classActivities[k].id],
           rows |-> [k \in 1..Len(classStudents) |->
                       [uid |-> classStudents[k].uid,
                        cells |-> [a \in 1..Len(classActivities) |->
                                     cellOf(attendanceMapGet(classActivities[a].id,
                                                             classStudents[k].uid))],
                        total |-> totalPointsOf(classActivities, classStudents[k].uid)]]]
  /\ UNCHANGED <<dbVars, session, inflight, fpVars, ceVars, ccVars, lpVars, cepReport,
                 navVars, mcVars, envVars>>

\* ----------------------------------------------------------- ManageClasses
\* The search box and the class filter only narrow the rendered list and are
\* left out; students is kept as the set of fetched rows.
CLASS_OPTIONS == {"FYIT", "FYSD", "SYIT", "SYSD"}

\* fetchStudents of ManageClasses: its response.
MC_fetchStudents(db, done) == Response("mcStudents", db, done)

\* ManageClasses mounts for user u.
MountManageClasses(u) ==
  /\ screen' = "manage-classes"
  /\ currentUser' = u
  /\ FP_Reset /\ CE_Reset /\ CC_Reset /\ LP_Reset
  /\ mcStudents' = {}
  /\ mcLoading' = TRUE
  /\ editingUid' = ""
  /\ editDraft' = EmptyDraft
  /\ bulkClass' = ""
  /\ bulkNewSemester' = <<>>
  /\ inflight' = <<MC_fetchStudents(dbStudents, "")>>
  /\ UNCHANGED <<dbVars, outVars, navVars, envVars>>

\* The rows of the list are rendered while not loading.
RowShown(uid) ==
  /\ screen = "manage-classes"
  /\ ~mcLoading
  /\ \E s \in mcStudents : s.uid = uid

\* startEdit(student), the Edit button of a row that is not being edited.
startEdit(student) ==
  /\ RowShown(student.uid)
  /\ student \in mcStudents
  /\ editingUid # student.uid
  /\ editingUid' = student.uid
  /\ editDraft' = [class |-> student.class, name |-> student.name,
                   semester |-> student.semester]
  /\ UNCHANGED <<dbVars, session, inflight, fpVars, ceVars, ccVars, lpVars, outVars, navVars,
                 mcStudents, mcLoading, bulkClass, bulkNewSemester, envVars>>

\* cancelEdit, the Cancel button of the row being edited.
cancelEdit ==
  /\ RowShown(editingUid)
  /\ editingUid' = ""
  /\ editDraft' = EmptyDraft
  /\ UNCHANGED <<dbVars, session, inflight, fpVars, ceVars, ccVars, lpVars, outVars, navVars,
                 mcStudents, mcLoading, bulkClass, bulkNewSemester, envVars>>

\* The class select, the name input and the semester input of the row being
\* edited: setEditDraft(prev => ({ ...prev, field })).
setEditDraft(field, value) ==
  /\ RowShown(editingUid)
  /\ editDraft' = [editDraft EXCEPT ![field] = value]
  /\ UNCHANGED <<dbVars, session, inflight, fpVars, ceVars, ccVars, lpVars, outVars, navVars,
                 mcStudents, mcLoading, editingUid, bulkClass, bulkNewSemester, envVars>>

\* A class test that lets every draft through.
draftClassRejected_Never(draft) == FALSE

\* saveEdit's class test: a non-empty class outside CLASS_OPTIONS is rejected.
draftClassRejected(draft) == draft.class # "" /\ draft.class \notin CLASS_OPTIONS

\* saveEdit, the Save button of the row being edited. ok: the update succeeds.
saveEdit(ok) ==
  /\ RowShown(editingUid)
  /\ IF editingUid # "" /\ ~draftClassRejected(editDraft) /\ ok
     THEN /\ Len(inflight) < MaxInflight
          /\ dbStudents' = {IF s.uid = editingUid
                            THEN [s EXCEPT !.class = editDraft.class, !.name = editDraft.name,
                                           !.semester = editDraft.semester]
                            ELSE s : s \in dbStudents}
          /\ mcLoading' = TRUE
          /\ inflight' = Append(inflight, MC_fetchStudents(dbStudents', "cancelEdit"))
     ELSE UNCHANGED <<dbStudents, mcLoading, inflight>>
  /\ UNCHANGED <<dbFpVars, dbCepVars, dbReqVars, dbCcVars, dbAttendance, session, fpVars,
                 ceVars, ccVars, lpVars, outVars, navVars, mcStudents, editingUid, editDraft,
                 bulkClass, bulkNewSemester, envVars>>

\* The Bulk Actions class select.
setBulkClass(c) ==
  /\ screen = "manage-classes"
  /\ bulkClass' = c
  /\ UNCHANGED <<dbVars, session, inflight, fpVars, ceVars, ccVars, lpVars, outVars, navVars,
                 mcStudents, mcLoading, editingUid, editDraft, bulkNewSemester, envVars>>

\* The New Semester input: '' for an empty input (<<>>), Number(value) otherwise.
setBulkNewSemester(v) ==
  /\ screen = "manage-classes"
  /\ bulkNewSemester' = v
  /\ UNCHANGED <<dbVars, session, inflight, fpVars, ceVars, ccVars, lpVars, outVars, navVars,
                 mcStudents, mcLoading, editingUid, editDraft, bulkClass, envVars>>

\* A delete without the class filter.
deleteByClass_All(db, c) == {}

\* .delete().eq('class', bulkClass)
deleteByClass(db, c) == {s \in db : s.class # c}

\* bulkDeleteByClass. confirmed: the confirm dialog's answer; ok: the delete succeeds.
bulkDeleteByClass(confirmed, ok) ==
  /\ screen = "manage-classes"
  /\ IF bulkClass # "" /\ confirmed
     THEN IF ok
          THEN /\ Len(inflight) < MaxInflight
               /\ dbStudents' = deleteByClass(dbStudents, bulkClass)
               /\ mcLoading' = TRUE
               /\ inflight' = Append(inflight, MC_fetchStudents(dbStudents', ""))
          ELSE /\ mcLoading' = FALSE
               /\ UNCHANGED <<dbStudents, inflight>>
     ELSE UNCHANGED <<dbStudents, mcLoading, inflight>>
  /\ UNCHANGED <<dbFpVars, dbCepVars, dbReqVars, dbCcVars, dbAttendance, session, fpVars,
                 ceVars, ccVars, lpVars, outVars, navVars, mcStudents, editingUid, editDraft,
                 bulkClass, bulkNewSemester, envVars>>

\* A semester test that accepts every entered number.
semesterRejected_EmptyOnly(v) == v = <<>>

\* bulkNewSemester === '' || Number(bulkNewSemester) <= 0
semesterRejected(v) == v = <<>> \/ v[1] <= 0

\* .update({ semester: Number(bulkNewSemester) }).eq('class', bulkClass)
updateSemesterByClass(db, c, v) ==
  {IF s.class = c THEN [s EXCEPT !.semester = v] ELSE s : s \in db}

\* bulkUpdateSemesterByClass. confirmed: the confirm dialog's answer; ok: the
\* update succeeds.
bulkUpdateSemesterByClass(confirmed, ok) ==
  /\ screen = "manage-classes"
  /\ IF bulkClass # "" /\ ~semesterRejected(bulkNewSemester) /\ confirmed
     THEN IF ok
          THEN /\ Len(inflight) < MaxInflight
               /\ dbStudents' = updateSemesterByClass(dbStudents, bulkClass, bulkNewSemester)
               /\ mcLoading' = TRUE
               /\ inflight' = Append(inflight, MC_fetchStudents(dbStudents', ""))
          ELSE /\ mcLoading' = FALSE
               /\ UNCHANGED <<dbStudents, inflight>>
     ELSE UNCHANGED <<dbStudents, mcLoading, inflight>>
  /\ UNCHANGED <<dbFpVars, dbCepVars, dbReqVars, dbCcVars, dbAttendance, session, fpVars,
                 ceVars, ccVars, lpVars, outVars, navVars, mcStudents, editingUid, editDraft,
                 bulkClass, bulkNewSemester, envVars>>

\* A CSV file is its header (the set of column names, trimmed and lowercased)
\* and its data rows; a row holds the trimmed uid, class and name cells and the
\* raw semester cell, a sequence of characters. The email and phone columns
\* are carried by no operation modelled here and are left out of the rows.
required == {"uid", "email", "name", "class"}

Digits == {"1", "2"}

DigitValue(c) == IF c = "1" THEN 1 ELSE 2

RECURSIVE TrimLeft(_)
TrimLeft(v) == IF v # <<>> /\ Head(v) = " " THEN TrimLeft(Tail(v)) ELSE v

RECURSIVE TrimRight(_)
TrimRight(v) ==
  IF v # <<>> /\ v[Len(v)] = " " THEN TrimRight(SubSeq(v, 1, Len(v) - 1)) ELSE v

\* String.prototype.trim
trim(v) == TrimRight(TrimLeft(v))

RECURSIVE Decimal(_)
Decimal(v) ==
  IF v = <<>> THEN 0 ELSE 10 * Decimal(SubSeq(v, 1, Len(v) - 1)) + DigitValue(v[Len(v)])

NaN == <<>>

\* Number(v) of JavaScript on a string: blank is 0, a numeral is its value,
\* anything else is NaN.
Number(v) ==
  IF trim(v) = <<>> THEN <<0>>
  ELSE IF \A i \in DOMAIN trim(v) : trim(v)[i] \in Digits THEN <<Decimal(trim(v))>>
  ELSE NaN

\* A conversion that takes a blank string for no number.
toNumber_BlankNull(v) == IF trim(v) = <<>> THEN <<>> ELSE Number(v)

\* const toNumber = (v) => { const n = Number(v); return Number.isFinite(n) ? n : null }
toNumber(v) == LET n == Number(v) IN IF n # NaN THEN n ELSE <<>>

\* The validation that only looks at the header.
csvAborts_HeaderOnly(file) == ~(required \subseteq file.header)

\* handleCsvUpload returns before the upsert: a required column is missing, or
\* the loop meets a row with a uid whose class is not in CLASS_OPTIONS.
csvAborts(file) ==
  \/ ~(required \subseteq file.header)
  \/ \E i \in DOMAIN file.rows :
       file.rows[i].uid # "" /\ file.rows[i].class \notin CLASS_OPTIONS

\* The upserts array: one entry per row with a uid, in file order.
upsertsOf(file) ==
  LET WithUid(row) == row.uid # ""
      data == SelectSeq(file.rows, WithUid)
  IN [i \in DOMAIN data |->
        [uid |-> data[i].uid, class |-> data[i].class, name |-> data[i].name,
         semester |-> IF "semester" \in file.header
                      THEN toNumber(trim(data[i].semester)) ELSE <<>>]]

\* An upsert that inserts every row.
upsert_InsertAll(db, rows) == db \cup Range(rows)

\* .upsert(upserts, { onConflict: 'uid' }): a row replaces the stored row of
\* its uid.
upsert(db, rows) ==
  {s \in db : \A i \in DOMAIN rows : rows[i].uid # s.uid} \cup Range(rows)

\* Postgres refuses an ON CONFLICT statement that touches a row twice.
upsertRefused(rows) ==
  \E i, j \in DOMAIN rows : i # j /\ rows[i].uid = rows[j].uid

\* handleCsvUpload(file). ok: the upsert request succeeds.
handleCsvUpload(file, ok) ==
  /\ screen = "manage-classes"
  /\ IF csvAborts(file)
     THEN UNCHANGED <<dbStudents, mcLoading, inflight>>
     ELSE IF ok /\ ~upsertRefused(upsertsOf(file))
          THEN /\ Len(inflight) < MaxInflight
               /\ dbStudents' = upsert(dbStudents, upsertsOf(file))
               /\ mcLoading' = TRUE
               /\ inflight' = Append(inflight, MC_fetchStudents(dbStudents', ""))
          ELSE /\ mcLoading' = FALSE
               /\ UNCHANGED <<dbStudents, inflight>>
  /\ UNCHANGED <<dbFpVars, dbCepVars, dbReqVars, dbCcVars, dbAttendance, session, fpVars,
                 ceVars, ccVars, lpVars, outVars, navVars, mcStudents, editingUid, editDraft,
                 bulkClass, bulkNewSemester, envVars>>

\* -------------------------------------------------------------- Navigation
\* The pages array of Navigation, in its order.
pages == <<"landing", "field-project", "community-engagement", "co-curricular",
           "attendance", "manage-classes">>

\* getAccessiblePages(user) of lib/pageAccess: some set of page ids per role.
getAccessiblePages(user) == accessTable[user.role]

\* A Navigation that offers every page.
availablePages_All(user) == pages

\* availablePages: the pages whose id getAccessiblePages(user) includes.
availablePages(user) ==
  LET accessiblePageIds == getAccessiblePages(user)
      Accessible(id) == id \in accessiblePageIds
  IN SelectSeq(pages, Accessible)

\* The resize listener: setIsMobile(window.innerWidth <= 640).
resize(mobile) ==
  /\ currentUser # NoUser
  /\ isMobile' = mobile
  /\ UNCHANGED <<dbVars, session, inflight, fpVars, ceVars, ccVars, lpVars, outVars,
                 mobileOpen, lastPageChange, mcVars, envVars>>

\* The Menu button (shown when mobile) and the menu's backdrop and x button.
setMobileOpen(open) ==
  /\ currentUser # NoUser
  /\ isMobile
  /\ open = ~mobileOpen
  /\ mobileOpen' = open
  /\ UNCHANGED <<dbVars, session, inflight, fpVars, ceVars, ccVars, lpVars, outVars,
                 isMobile, lastPageChange, mcVars, envVars>>

\* A page button of the bar: of Navigation.tsx, which always shows the bar, and
\* of the responsive Navigation, which shows it when not mobile.
clickBarPage(id, responsive) ==
  /\ currentUser # NoUser
  /\ responsive => ~isMobile
  /\ id \in Range(availablePages(currentUser))
  /\ lastPageChange' = [page |-> id, role |-> currentUser.role]
  /\ UNCHANGED <<dbVars, session, inflight, fpVars, ceVars, ccVars, lpVars, outVars,
                 isMobile, mobileOpen, mcVars, envVars>>

\* A page button of the mobile menu: onPageChange(page.id); setMobileOpen(false).
clickMenuPage(id) ==
  /\ currentUser # NoUser
  /\ isMobile /\ mobileOpen
  /\ id \in Range(availablePages(currentUser))
  /\ lastPageChange' = [page |-> id, role |-> currentUser.role]
  /\ mobileOpen' = FALSE
  /\ UNCHANGED <<dbVars, session, inflight, fpVars, ceVars, ccVars, lpVars, outVars,
                 isMobile, mcVars, envVars>>

\* --------------------------------------------------------------- responses
\* The response at position i of inflight arrives; ok: it carries no error.
\* Every fetch of FieldProject, CommunityEngagement and CoCurricular sets its
\* state only when the response has no error. The code that awaited the fetch
\* then goes on: handleFileUpload's finally block clears uploading[type],
\* handleAddOrUpdateActivity resets and hides its form. fetchTeacherDashboard,
\* whose closure holds the first render's empty selectedActivityId, selects the
\* first option and calls computeCountsForActivity for it, and the
\* selectedActivityId effect sends the same query for the new selection.
\* ManageClasses' fetchStudents clears loading whatever the response, and
\* saveEdit calls cancelEdit after its awaited fetchStudents.
Deliver(i, ok) ==
  /\ i \in 1..Len(inflight)
  /\ LET r == inflight[i]
         rest == RemoveAt(inflight, i)
     IN
       /\ r.op \in {"lpTeacher", "lpStudent", "lpCounts"} => ok
       /\ fpSubmissions' = IF ok /\ r.op = "fpSubmissions" THEN r.data ELSE fpSubmissions
       /\ fpStudents' = IF ok /\ r.op = "fpStudents" THEN r.data ELSE fpStudents
       /\ fpUploading' = fpUploading \ {r.done}
       /\ ceSubmissions' = IF ok /\ r.op = "ceSubmissions" THEN r.data ELSE ceSubmissions
       /\ ceStudents' = IF ok /\ r.op = "ceStudents" THEN r.data ELSE ceStudents
       /\ ceRequirements' = IF ok /\ r.op = "ceRequirements" THEN r.data ELSE ceRequirements
       /\ activities' = IF ok /\ r.op = "activities" THEN r.data ELSE activities
       /\ newActivity' = IF r.done = "resetForm" THEN EmptyActivity ELSE newActivity
       /\ ccShowForm' = IF r.done = "resetForm" THEN FALSE ELSE ccShowForm
       /\ studentsWithAllDocs' =
            IF r.op = "lpTeacher" THEN r.data.allDocsCount ELSE studentsWithAllDocs
       /\ cepUniqueStudents' =
            IF r.op = "lpTeacher" THEN r.data.cepUnique ELSE cepUniqueStudents
       /\ activityOptions' = IF r.op = "lpTeacher" THEN r.data.options ELSE activityOptions
       /\ selectedActivityId' =
            IF r.op = "lpTeacher" /\ r.data.options # <<>>
            THEN r.data.options[1].id ELSE selectedActivityId
       /\ attendanceCountsBySelected' =
            IF r.op = "lpCounts" THEN r.data.counts ELSE attendanceCountsBySelected
       /\ fieldCounts' = IF r.op = "lpStudent" THEN r.data.counts ELSE fieldCounts
       /\ attendanceStats' = IF r.op = "lpStudent" THEN r.data.stats ELSE attendanceStats
       /\ inflight' =
            IF r.op = "lpTeacher" /\ r.data.options # <<>>
            THEN rest \o <<computeCountsForActivity(r.data.options[1].id),
                           computeCountsForActivity(r.data.options[1].id)>>
            ELSE rest
       /\ mcStudents' = IF ok /\ r.op = "mcStudents" THEN r.data ELSE mcStudents
       /\ mcLoading' = IF r.op = "mcStudents" THEN FALSE ELSE mcLoading
       /\ editingUid' = IF r.done = "cancelEdit" THEN "" ELSE editingUid
       /\ editDraft' = IF r.done = "cancelEdit" THEN EmptyDraft ELSE editDraft
  /\ UNCHANGED <<dbVars, session, newSubmission, ceFormVars, studentClass, outVars,
                 navVars, bulkClass, bulkNewSemester, envVars>>

\* ---------------------------------------------------------- specifications
\* The store before anyone has written to it; the roster of students is given.
EmptyStore ==
  /\ dbFieldProject = {} /\ fpNextId = 1
  /\ dbCep = {} /\ cepNextId = 1
  /\ dbReq = {} /\ reqNextId = 1
  /\ dbActivities = {} /\ ccNextId = 1
  /\ dbAttendance = {}
  /\ dbStudents = Roster

Init == EmptyStore /\ InitLocal

\* Students and the teacher on the Field Project and Community Engagement
\* screens: uploads, deletes and activity submissions.
Next ==
  \/ \E u \in Users : MountFieldProject(u)
  \/ \E t \in documentTypes, sOk \in BOOLEAN, iOk \in BOOLEAN : handleFileUpload(t, sOk, iOk)
  \/ \E sub \in Range(fpSubmissions), c \in BOOLEAN, ok \in BOOLEAN : handleDelete(sub, c, ok)
  \/ \E u \in Users : MountCommunityEngagement(u)
  \/ \E h \in 1..MaxHours, f \in BOOLEAN : setNewSubmission(h, f)
  \/ \E uOk \in BOOLEAN, iOk \in BOOLEAN : handleSubmitActivity(uOk, iOk)
  \/ \E i \in 1..(MaxInflight + 3), ok \in BOOLEAN : Deliver(i, ok)

Spec == Init /\ [][Next]_vars

\* The teacher's requirement editor of CommunityEngagement.
NextReq ==
  \/ \E u \in Users : MountCommunityEngagement(u)
  \/ toggleShowForm
  \/ \E c \in Classes, h \in 1..MaxHours : setNewRequirement(c, h)
  \/ \E ok \in BOOLEAN : handleAddRequirement(ok)
  \/ \E req \in Range(ceRequirements) : handleEditRequirement(req)
  \/ \E req \in Range(ceRequirements), c \in BOOLEAN, ok \in BOOLEAN :
        handleDeleteRequirement(req, c, ok)
  \/ \E i \in 1..(MaxInflight + 3), ok \in BOOLEAN : Deliver(i, ok)

SpecReq == Init /\ [][NextReq]_vars

\* The Co-Curricular screen: the teacher's activity form and list, and the
\* students who open the screen.
NextCC ==
  \/ \E u \in Users : MountCoCurricular(u)
  \/ toggleActivityForm
  \/ \E f \in BOOLEAN, d \in FormDates : setNewActivity(f, d)
  \/ \E c \in FormClasses : handleCheckboxChange(c)
  \/ \E ok \in BOOLEAN : handleAddOrUpdateActivity(ok)
  \/ \E a \in Range(activities) : handleEdit(a)
  \/ \E a \in Range(activities), ok \in BOOLEAN : CC_handleDelete(a, ok)
  \/ \E i \in 1..(MaxInflight + 3), ok \in BOOLEAN : Deliver(i, ok)

SpecCC == Init /\ [][NextCC]_vars

\* The teacher's activity form of CoCurricular alone.
NextForm ==
  \/ \E u \in TeacherUsers : MountCoCurricular(u)
  \/ toggleActivityForm
  \/ \E d \in FormDates : setNewActivity(TRUE, d)
  \/ handleCheckboxChange("FYIT")
  \/ \E ok \in BOOLEAN : handleAddOrUpdateActivity(ok)
  \/ \E a \in Range(activities) : handleEdit(a)
  \/ \E a \in Range(activities), ok \in BOOLEAN : CC_handleDelete(a, ok)
  \/ \E i \in 1..(MaxInflight + 3), ok \in BOOLEAN : Deliver(i, ok)

SpecForm == Init /\ [][NextForm]_vars

\* The tables the dashboards and reports of LandingPage read are given: the
\* specifications below start from every table of a bounded shape.
StudentOrder == <<"s1", "s2">>
TypeOrder == <<"completion_letter", "outcome_form", "feedback_form", "video_presentation">>
IndexOf(seq, x) == CHOOSE i \in 1..Len(seq) : seq[i] = x
SeqsUpTo(S, n) == UNION {[1..k -> S] : k \in 0..n}

\* field_project_submissions with cnt[s, t] rows of student s and type t: the
\* rows that uploads of the four document types leave, duplicates included.
FieldProjectTable(cnt) ==
  {[id |-> ((IndexOf(StudentOrder, x[1]) - 1) * Len(TypeOrder)
              + IndexOf(TypeOrder, x[2]) - 1) * MaxDup + x[3],
    student_uid |-> x[1], class |-> ClassOf(x[1]), document_type |-> x[2]] :
     x \in {y \in Students \X documentTypes \X (1..MaxDup) : y[3] <= cnt[y[1], y[2]]}}

\* cep_submissions with one row of hours[k] per position k of subs[s].
CepTable(subs) ==
  {[id |-> (IndexOf(StudentOrder, x[1]) - 1) * MaxSubs + x[2],
    student_uid |-> x[1], hours |-> subs[x[1]][x[2]]] :
     x \in {y \in Students \X (1..MaxSubs) : y[2] <= Len(subs[y[1]])}}

\* co_curricular_activities with the rows acts[1..n], ids 1..n.
ActivityTable(acts) ==
  {[id |-> k, assigned_class |-> acts[k].assigned_class, date |-> acts[k].date,
    cc_points |-> acts[k].cc_points] : k \in 1..Len(acts)}

\* co_curricular_attendance with one row per key of st, a function from
\* (activity id, student) pairs to statuses.
AttendanceTable(st) ==
  {[activity_id |-> k[1], student_uid |-> k[2], attendance_status |-> st[k]] :
     k \in DOMAIN st}

AttendanceTables(ids, statuses) ==
  {AttendanceTable(st) :
     st \in UNION {[K -> statuses] :
                     K \in {L \in SUBSET (ids \X Students) : Cardinality(L) <= MaxAttendance}}}

NoInsertsYet ==
  /\ fpNextId = 1 /\ cepNextId = 1 /\ reqNextId = 1 /\ ccNextId = 1

\* The teacher's and the students' dashboards over given field project and
\* cep_submissions tables.
InitDocs ==
  /\ InitLocal /\ NoInsertsYet
  /\ \E cnt \in [Students \X documentTypes -> 0..MaxDup] : dbFieldProject = FieldProjectTable(cnt)
  /\ \E S \in SUBSET Students :
       dbCep = CepTable([s \in Students |-> IF s \in S THEN <<1>> ELSE <<>>])
  /\ dbReq = {} /\ dbActivities = {} /\ dbAttendance = {}
  /\ dbStudents = Roster

NextDocs ==
  \/ \E u \in Users : MountLandingPage(u)
  \/ \E i \in 1..(MaxInflight + 3), ok \in BOOLEAN : Deliver(i, ok)

SpecDocs == InitDocs /\ [][NextDocs]_vars

\* The attendance tallies of the dashboards over given activities and
\* attendance rows.
TallyStatuses == {"present", "absent", "late"}
InitTally ==
  /\ InitLocal /\ NoInsertsYet
  /\ dbFieldProject = {} /\ dbCep = {} /\ dbReq = {}
  /\ \E acts \in SeqsUpTo([assigned_class : {{"FYIT"}}, date : FormDates, cc_points : {<<>>}],
                          MaxActivities) :
       /\ dbActivities = ActivityTable(acts)
       /\ dbAttendance \in AttendanceTables(1..Len(acts), TallyStatuses)
  /\ dbStudents = Roster

NextTally ==
  \/ \E u \in Users : MountLandingPage(u)
  \/ \E id \in 1..MaxActivities : selectActivity(id)
  \/ \E i \in 1..(MaxInflight + 3), ok \in BOOLEAN : Deliver(i, ok)

SpecTally == InitTally /\ [][NextTally]_vars

\* The attendance report over given activities and attendance rows.
ReportClassSets == {{"FYIT"}, {"FYSD"}}
ReportPoints == {<<>>, <<1>>, <<2>>}
ReportStatuses == {"present", "absent"}
InitAttReport ==
  /\ InitLocal /\ NoInsertsYet
  /\ dbFieldProject = {} /\ dbCep = {} /\ dbReq = {}
  /\ \E acts \in SeqsUpTo([assigned_class : ReportClassSets, date : FormDates,
                           cc_points : ReportPoints], MaxActivities) :
       /\ dbActivities = ActivityTable(acts)
       /\ dbAttendance \in AttendanceTables(1..Len(acts), ReportStatuses)
  /\ dbStudents = Roster

NextAttReport ==
  \/ \E u \in TeacherUsers : MountLandingPage(u)
  \/ \E c \in FormClasses : exportAttendanceReportLanding(c)

SpecAttReport == InitAttReport /\ [][NextAttReport]_vars

\* The CEP report over given submissions, requirement and roster.
SubHours == {1, 2}
TierHours == {2, 4}
TierCredits == {1, 2}
CreditConfigs == SeqsUpTo([hours : TierHours, credits : TierCredits], MaxTiers)
Rosters == {Roster, {[uid |-> s, class |-> "FYIT", name |-> "a", semester |-> <<>>] :
                       s \in Students}}
InitCepReport ==
  /\ InitLocal /\ NoInsertsYet
  /\ dbFieldProject = {} /\ dbActivities = {} /\ dbAttendance = {}
  /\ \E subs \in [Students -> SeqsUpTo(SubHours, MaxSubs)] : dbCep = CepTable(subs)
  /\ \/ dbReq = {}
     \/ \E cfg \in CreditConfigs :
          dbReq = {[id |-> 1, assigned_class |-> "FYIT", minimum_hours |-> 1,
                    credits_config |-> cfg]}
  /\ dbStudents \in Rosters

NextCepReport ==
  \/ \E u \in TeacherUsers : MountLandingPage(u)
  \/ \E c \in FormClasses : exportCEPReportLanding(c)

SpecCepReport == InitCepReport /\ [][NextCepReport]_vars

\* Navigation for a logged-in user, over every table getAccessiblePages may
\* hold; "admin" stands for an id that is not a page of Navigation.
PageIdUniverse == Range(pages) \cup {"admin"}
AccessTables ==
  [{"student", "teacher"} -> {S \in SUBSET PageIdUniverse : Cardinality(S) <= MaxAccess}]
InitNav ==
  /\ InitComponents /\ EmptyStore
  /\ accessTable \in AccessTables
  /\ csvFile = NoFile

NextNav ==
  \/ \E u \in Users : MountLandingPage(u)
  \/ \E i \in 1..(MaxInflight + 3), ok \in BOOLEAN : Deliver(i, ok)
  \/ \E m \in BOOLEAN : resize(m)
  \/ \E o \in BOOLEAN : setMobileOpen(o)
  \/ \E id \in PageIdUniverse, r \in BOOLEAN : clickBarPage(id, r)
  \/ \E id \in PageIdUniverse : clickMenuPage(id)

SpecNav == InitNav /\ [][NextNav]_vars

\* ManageClasses importing one CSV file, over files of up to MaxCsvRows rows:
\* headers with and without the class and semester columns, rows with and
\* without a uid, with stored and new uids, with valid and invalid classes.
CsvHeaders == {required, required \cup {"semester"}, required \ {"class"}}
CsvRows == [uid : {"", "s1", "s3"}, class : {"FYIT", "SYSD", "TYIT"}, name : {"b"},
            semester : {<<"1">>}]
CsvFiles == [header : CsvHeaders, rows : SeqsUpTo(CsvRows, MaxCsvRows)]
InitCsv ==
  /\ InitComponents /\ EmptyStore
  /\ accessTable = NoAccess
  /\ csvFile \in CsvFiles

NextCsv ==
  \/ \E u \in TeacherUsers : MountManageClasses(u)
  \/ \E i \in 1..(MaxInflight + 3), ok \in BOOLEAN : Deliver(i, ok)
  \/ \E ok \in BOOLEAN : handleCsvUpload(csvFile, ok)

SpecCsv == InitCsv /\ [][NextCsv]_vars

\* ManageClasses importing a one-row CSV file whose semester cell is any
\* string of up to MaxCell characters, with and without the semester column.
CellChars == {"1", "2", "a", " "}
CellFiles ==
  [header : {required, required \cup {"semester"}},
   rows : {<<[uid |-> u, class |-> "SYIT", name |-> "b", semester |-> c]>> :
             u \in {"s1", "s3"}, c \in SeqsUpTo(CellChars, MaxCell)}]
InitCell ==
  /\ InitComponents /\ EmptyStore
  /\ accessTable = NoAccess
  /\ csvFile \in CellFiles

SpecCell == InitCell /\ [][NextCsv]_vars

\* ManageClasses over every students table of the two students, each absent
\* or in a class that may be valid, invalid or empty (the table is also
\* written outside ManageClasses).
StoredClasses == {"FYIT", "SYSD", "TYIT", ""}
StudentTables ==
  {T \in SUBSET [uid : Students, class : StoredClasses, name : {"a"}, semester : {<<1>>}] :
     \A s \in T, t \in T : s.uid = t.uid => s = t}
InitStudents ==
  /\ InitLocal
  /\ dbFieldProject = {} /\ dbCep = {} /\ dbReq = {} /\ dbActivities = {}
  /\ dbAttendance = {} /\ NoInsertsYet
  /\ dbStudents \in StudentTables

\* The Bulk Actions panel.
BulkClasses == {"", "FYIT", "SYSD"}
BulkSemesters == {<<>>, <<-1>>, <<0>>, <<2>>}
NextBulk ==
  \/ \E u \in TeacherUsers : MountManageClasses(u)
  \/ \E i \in 1..(MaxInflight + 3), ok \in BOOLEAN : Deliver(i, ok)
  \/ \E c \in BulkClasses : setBulkClass(c)
  \/ \E v \in BulkSemesters : setBulkNewSemester(v)
  \/ \E confirmed \in BOOLEAN, ok \in BOOLEAN : bulkDeleteByClass(confirmed, ok)
  \/ \E confirmed \in BOOLEAN, ok \in BOOLEAN : bulkUpdateSemesterByClass(confirmed, ok)

SpecBulk == InitStudents /\ [][NextBulk]_vars

\* The rows of the list and their editing.
DraftClasses == {"SYIT"}
DraftNames == {"b"}
DraftSemesters == {<<2>>}
EditableRows ==
  [uid : Students, class : StoredClasses \cup DraftClasses, name : {"a"} \cup DraftNames,
   semester : {<<1>>} \cup DraftSemesters]
NextEdit ==
  \/ \E u \in TeacherUsers : MountManageClasses(u)
  \/ \E i \in 1..(MaxInflight + 3), ok \in BOOLEAN : Deliver(i, ok)
  \/ \E s \in EditableRows : startEdit(s)
  \/ cancelEdit
  \/ \E c \in DraftClasses : setEditDraft("class", c)
  \/ \E n \in DraftNames : setEditDraft("name", n)
  \/ \E v \in DraftSemesters : setEditDraft("semester", v)
  \/ \E ok \in BOOLEAN : saveEdit(ok)

SpecEdit == InitStudents /\ [][NextEdit]_vars

\* The four screens together, for one student and the teacher: every
\* operation of FieldProject, CommunityEngagement, CoCurricular and
\* ManageClasses over one store.
ScreenUsers == {u \in Users : u.id \in {"s1", "t1"}}
NextScreens ==
  \/ \E u \in ScreenUsers \ TeacherUsers : MountFieldProject(u)
  \/ \E sOk \in BOOLEAN, iOk \in BOOLEAN : handleFileUpload("outcome_form", sOk, iOk)
  \/ \E sub \in Range(fpSubmissions), c \in BOOLEAN, ok \in BOOLEAN : handleDelete(sub, c, ok)
  \/ \E u \in ScreenUsers : MountCommunityEngagement(u)
  \/ setNewSubmission(1, TRUE)
  \/ \E uOk \in BOOLEAN, iOk \in BOOLEAN : handleSubmitActivity(uOk, iOk)
  \/ toggleShowForm
  \/ setNewRequirement("FYIT", 1)
  \/ \E ok \in BOOLEAN : handleAddRequirement(ok)
  \/ \E req \in Range(ceRequirements) : handleEditRequirement(req)
  \/ \E req \in Range(ceRequirements), c \in BOOLEAN, ok \in BOOLEAN :
        handleDeleteRequirement(req, c, ok)
  \/ \E u \in TeacherUsers : MountCoCurricular(u)
  \/ toggleActivityForm
  \/ setNewActivity(TRUE, 1)
  \/ handleCheckboxChange("FYIT")
  \/ \E ok \in BOOLEAN : handleAddOrUpdateActivity(ok)
  \/ \E a \in Range(activities) : handleEdit(a)
  \/ \E a \in Range(activities), ok \in BOOLEAN : CC_handleDelete(a, ok)
  \/ \E u \in TeacherUsers : MountManageClasses(u)
  \/ \E s \in EditableRows : startEdit(s)
  \/ cancelEdit
  \/ setEditDraft("semester", <<2>>)
  \/ \E ok \in BOOLEAN : saveEdit(ok)
  \/ setBulkClass("FYIT")
  \/ setBulkNewSemester(<<2>>)
  \/ \E confirmed \in BOOLEAN, ok \in BOOLEAN : bulkDeleteByClass(confirmed, ok)
  \/ \E confirmed \in BOOLEAN, ok \in BOOLEAN : bulkUpdateSemesterByClass(confirmed, ok)
  \/ \E ok \in BOOLEAN : handleCsvUpload(csvFile, ok)
  \/ \E i \in 1..(MaxInflight + 3), ok \in BOOLEAN : Deliver(i, ok)

ScreenFile ==
  [header |-> required \cup {"semester"},
   rows |-> <<[uid |-> "s2", class |-> "FYSD", name |-> "a", semester |-> <<"2">>]>>]
InitScreens ==
  /\ InitComponents /\ EmptyStore
  /\ accessTable = NoAccess
  /\ csvFile = ScreenFile

SpecScreens == InitScreens /\ [][NextScreens]_vars

\* ------------------------------------------------------------------ claims

\* C1: the store holds at most one field_project_submissions row per
\* (student_uid, document_type), whatever uploads and deletes a student makes.
C1_OneRowPerStudentAndType ==
  \A r1 \in dbFieldProject, r2 \in dbFieldProject :
    (r1.student_uid = r2.student_uid /\ r1.document_type = r2.document_type) => r1.id = r2.id

\* C2: on the Co-Curricular screen of a student of class c the activities
\* list holds only activities of the table whose assigned_class includes c,
\* and once set it holds all of them.
C2_MountListFilteredByClass ==
  (screen = "co-curricular" /\ currentUser.role = "student") =>
    LET ofClass == {a \in dbActivities : currentUser.class \in a.assigned_class}
    IN /\ Range(activities) \subseteq ofClass
       /\ activities # <<>> => ofClass \subseteq Range(activities)

\* C3: for role student the submissions lists of FieldProject and of
\* CommunityEngagement hold only rows of the current student; for role teacher
\* a fetched list is unfiltered: it holds the rows of all students in the table.
C3_SubmissionsByRole ==
  /\ currentUser.role = "student" =>
       \A s \in Range(fpSubmissions) \cup Range(ceSubmissions) : s.student_uid = currentUser.id
  /\ currentUser.role = "teacher" =>
       /\ fpSubmissions # <<>> => dbFieldProject \subseteq Range(fpSubmissions)
       /\ ceSubmissions # <<>> => dbCep \subseteq Range(ceSubmissions)

\* A student's fetched list is not empty while the table also holds a row of
\* another student.
C3_Witness ==
  /\ currentUser.role = "student"
  /\ fpSubmissions # <<>>
  /\ \E r \in dbFieldProject : r.student_uid # currentUser.id

\* The tier table of the selected class's requirement, empty when there is no
\* requirement or no table.
TierTable(c) ==
  IF \E r \in dbReq : r.assigned_class = c
  THEN (CHOOSE r \in dbReq : r.assigned_class = c).credits_config
  ELSE <<>>

\* The positions of the tiers with the largest threshold that h reaches.
LargestReached(cfg, h) ==
  {i \in DOMAIN cfg :
     /\ cfg[i].hours <= h
     /\ \A j \in DOMAIN cfg : cfg[j].hours <= h => cfg[j].hours <= cfg[i].hours}

\* Every order in which the tiers of cfg can be stored.
Reorderings(cfg) ==
  {[k \in DOMAIN cfg |-> cfg[p[k]]] :
     p \in {q \in [DOMAIN cfg -> DOMAIN cfg] : \A a, b \in DOMAIN cfg : q[a] = q[b] => a = b}}

DistinctThresholds(cfg) ==
  \A a, b \in DOMAIN cfg : cfg[a].hours = cfg[b].hours => a = b

\* C4 as stated: in an exported CEP report every row's creditsAllocated is the
\* credits of a tier with the largest threshold the row's hours reach, 0 when
\* no tier is reached, and the lookup gives the same credits for every order
\* in which the tiers are stored.
C4_CreditsAnyOrder ==
  cepReport.class # "" =>
    \A k \in DOMAIN cepReport.rows :
      LET row == cepReport.rows[k]
          cfg == TierTable(cepReport.class)
          top == LargestReached(cfg, row.hoursCompleted)
      IN /\ top = {} => row.creditsAllocated = 0
         /\ top # {} => \E i \in top : row.creditsAllocated = cfg[i].credits
         /\ \A other \in Reorderings(cfg) :
              creditsFor(other, row.hoursCompleted) = row.creditsAllocated

\* C4, amended: creditsAllocated is the credits of the first stored tier among
\* those with the largest threshold the hours reach, 0 when no tier is reached;
\* the order of the tiers does not matter when no two tiers share a threshold.
C4_CreditsFirstOfLargest ==
  cepReport.class # "" =>
    \A k \in DOMAIN cepReport.rows :
      LET row == cepReport.rows[k]
          cfg == TierTable(cepReport.class)
          top == LargestReached(cfg, row.hoursCompleted)
      IN /\ top = {} => row.creditsAllocated = 0
         /\ top # {} =>
              row.creditsAllocated = cfg[CHOOSE i \in top : \A j \in top : i <= j].credits
         /\ DistinctThresholds(cfg) =>
              \A other \in Reorderings(cfg) :
                creditsFor(other, row.hoursCompleted) = row.creditsAllocated

\* A report row whose hours reach two tiers of different thresholds, the
\* smaller threshold stored first.
C4_Witness ==
  /\ cepReport.class # ""
  /\ \E k \in DOMAIN cepReport.rows :
       LET cfg == TierTable(cepReport.class)
       IN /\ Len(cfg) >= 2
          /\ cfg[1].hours < cfg[2].hours
          /\ cfg[2].hours <= cepReport.rows[k].hoursCompleted
          /\ cfg[1].credits # cfg[2].credits
          /\ cepReport.rows[k].creditsAllocated = cfg[2].credits

RECURSIVE TotalHoursUpTo(_, _)
\* The hours of the cep_submissions rows of uid with ids 1..n, added up.
TotalHoursUpTo(uid, n) ==
  IF n = 0 THEN 0
  ELSE (IF \E r \in dbCep : r.id = n /\ r.student_uid = uid
        THEN (CHOOSE r \in dbCep : r.id = n /\ r.student_uid = uid).hours
        ELSE 0) + TotalHoursUpTo(uid, n - 1)

\* C5: an exported CEP report has exactly one row per student of the selected
\* class and no other row, and a row's hoursCompleted is the sum of the hours
\* of the cep_submissions rows of that student (0 without submissions).
C5_HoursSummedPerClassStudent ==
  cepReport.class # "" =>
    /\ \A s \in dbStudents :
         s.class = cepReport.class =>
           Cardinality({k \in DOMAIN cepReport.rows : cepReport.rows[k].uid = s.uid}) = 1
    /\ \A k \in DOMAIN cepReport.rows :
         /\ \E s \in dbStudents :
              s.uid = cepReport.rows[k].uid /\ s.class = cepReport.class
         /\ cepReport.rows[k].hoursCompleted =
              TotalHoursUpTo(cepReport.rows[k].uid, Cardinality(Students) * MaxSubs)

\* A report with a row that adds up two submissions, while a student outside
\* the class has submissions too.
C5_Witness ==
  /\ cepReport.class # ""
  /\ \E k \in DOMAIN cepReport.rows :
       /\ Cardinality({r \in dbCep : r.student_uid = cepReport.rows[k].uid}) = 2
       /\ cepReport.rows[k].hoursCompleted >= 2
  /\ \E s \in dbStudents :
       s.class # cepReport.class /\ \E r \in dbCep : r.student_uid = s.uid

\* The teacher's dashboard has received what fetchTeacherDashboard fetched.
TeacherDashboardLoaded ==
  /\ screen = "landing"
  /\ currentUser.role = "teacher"
  /\ \A i \in DOMAIN inflight : inflight[i].op # "lpTeacher"

\* The students with at least one row of document type t for every t of ts.
HaveEach(ts) ==
  {s \in Students :
     \A t \in ts : \E r \in dbFieldProject : r.student_uid = s /\ r.document_type = t}

FourTypes == {"completion_letter", "outcome_form", "feedback_form", "video_presentation"}

TallyOf(c, rows) ==
  /\ c.present = Cardinality({r \in rows : r.attendance_status = "present"})
  /\ c.absent = Cardinality({r \in rows : r.attendance_status = "absent"})
  /\ c.present + c.absent <= Cardinality(rows)

\* C7: the counts fetched for one activity and the counts shown for it, and
\* the attendance stats of one student, have present = the number of rows with
\* status 'present' and absent = the number with 'absent', rows of any other
\* status counted in neither.
C7_TallyPresentAbsent ==
  /\ \A i \in DOMAIN inflight :
       inflight[i].op = "lpCounts" =>
         TallyOf(inflight[i].data.counts,
                 {r \in dbAttendance : r.activity_id = inflight[i].data.activity_id})
  /\ (TeacherDashboardLoaded /\ attendanceCountsBySelected # NoCounts) =>
       \E o \in Range(activityOptions) :
         TallyOf(attendanceCountsBySelected, {r \in dbAttendance : r.activity_id = o.id})
  /\ (screen = "landing" /\ currentUser.role = "student" /\ inflight = <<>>) =>
       TallyOf(attendanceStats, {r \in dbAttendance : r.student_uid = currentUser.id})

\* The counts shown for the selected activity come from a row marked present
\* and a row of another status than present or absent.
C7_Witness ==
  /\ TeacherDashboardLoaded
  /\ inflight = <<>>
  /\ attendanceCountsBySelected = [present |-> 1, absent |-> 0]
  /\ Cardinality({r \in dbAttendance : r.activity_id = selectedActivityId}) = 2

\* C8: cep_requirements holds at most one row per assigned_class.
C8_OneRequirementPerClass ==
  \A r1 \in dbReq, r2 \in dbReq : r1.assigned_class = r2.assigned_class => r1.id = r2.id

\* The activity of the table with this id.
ActivityById(id) == CHOOSE a \in dbActivities : a.id = id

\* The student's recorded attendance_status for an activity is 'present'.
RecordedPresent(aid, uid) ==
  \E r \in dbAttendance :
    r.activity_id = aid /\ r.student_uid = uid /\ r.attendance_status = "present"

RecordedAbsent(aid, uid) ==
  \E r \in dbAttendance :
    r.activity_id = aid /\ r.student_uid = uid /\ r.attendance_status = "absent"

RECURSIVE PresentPointsUpTo(_, _, _)
\* The cc_points (0 when missing) of the activities with ids 1..n assigned to
\* class c at which uid is recorded present, added up.
PresentPointsUpTo(c, uid, n) ==
  IF n = 0 THEN 0
  ELSE (IF /\ \E a \in dbActivities : a.id = n /\ c \in a.assigned_class
           /\ RecordedPresent(n, uid)
           /\ ActivityById(n).cc_points # <<>>
        THEN ActivityById(n).cc_points[1]
        ELSE 0) + PresentPointsUpTo(c, uid, n - 1)

\* C9: an exported attendance report has one column per activity assigned to
\* the selected class, in ascending date order, one row per student of the
\* class with one cell per column, and a row's total is the sum of cc_points
\* (0 when missing) over the class's activities at which the student is
\* recorded present.
C9_AttendanceReport ==
  attendanceReport.class # "" =>
    LET c == attendanceReport.class
        header == attendanceReport.header
        rows == attendanceReport.rows
    IN /\ Range(header) = {a.id : a \in {b \in dbActivities : c \in b.assigned_class}}
       /\ \A i, j \in DOMAIN header :
            /\ header[i] = header[j] => i = j
            /\ i < j => ActivityById(header[i]).date <= ActivityById(header[j]).date
       /\ \A s \in dbStudents :
            s.class = c => Cardinality({k \in DOMAIN rows : rows[k].uid = s.uid}) = 1
       /\ \A k \in DOMAIN rows :
            /\ \E s \in dbStudents : s.uid = rows[k].uid /\ s.class = c
            /\ Len(rows[k].cells) = Len(header)
            /\ \A a \in DOMAIN header :
                 /\ rows[k].cells[a] = "Present" <=> RecordedPresent(header[a], rows[k].uid)
                 /\ rows[k].cells[a] = "Absent" <=> RecordedAbsent(header[a], rows[k].uid)
                 /\ rows[k].cells[a] \in {"Present", "Absent", "-"}
            /\ rows[k].total = PresentPointsUpTo(c, rows[k].uid, MaxActivities)

\* A report whose two columns are not in the order of the store, with a row
\* that is present at one activity and absent at another that has points.
C9_Witness ==
  /\ attendanceReport.class # ""
  /\ Len(attendanceReport.header) = 2
  /\ attendanceReport.header[1] > attendanceReport.header[2]
  /\ \E k \in DOMAIN attendanceReport.rows :
       /\ attendanceReport.rows[k].total > 0
       /\ \E a \in DOMAIN attendanceReport.header :
            /\ attendanceReport.rows[k].cells[a] = "Absent"
            /\ ActivityById(attendanceReport.header[a]).cc_points # <<>>

\* C10: the Field Project Completion chart's Completed value is
\* studentsWithAllDocs and its Incomplete value is the number of students with
\* at least one field project document but not all four.
C10_PieIncompleteIsPartialStudents ==
  TeacherDashboardLoaded =>
    /\ fieldProjectPieData.Completed = studentsWithAllDocs
    /\ fieldProjectPieData.Incomplete =
         Cardinality({s \in Students \ HaveEach(FourTypes) :
                        \E r \in dbFieldProject : r.student_uid = s})

\* C11: Navigation calls onPageChange only with the id of one of its pages
\* that getAccessiblePages gives for the user who clicked, from the bar and from
\* the mobile menu alike.
C11_OnlyAccessiblePages ==
  lastPageChange.page # "" =>
    /\ lastPageChange.page \in accessTable[lastPageChange.role]
    /\ lastPageChange.page \in Range(pages)

\* onPageChange was called from the mobile menu, by a user to whom some page
\* of Navigation is not accessible.
C11_Witness ==
  /\ lastPageChange.page # ""
  /\ isMobile /\ ~mobileOpen
  /\ \E id \in Range(pages) : id \notin accessTable[lastPageChange.role]
  /\ "admin" \in accessTable[lastPageChange.role]

\* C12: handleCsvUpload leaves the students table as it was when the file's
\* header lacks uid, email, name or class, or when any row with a uid names a
\* class outside FYIT, FYSD, SYIT, SYSD, even when earlier rows were valid; a
\* row with an empty uid is skipped and the import of the other rows goes on.
C12_CsvAllOrNothing ==
  LET rows == csvFile.rows
      Invalid == \/ \E col \in {"uid", "email", "name", "class"} : col \notin csvFile.header
                 \/ \E i \in DOMAIN rows :
                      rows[i].uid # "" /\ rows[i].class \notin {"FYIT", "FYSD", "SYIT", "SYSD"}
  IN /\ Invalid => dbStudents = Roster
     /\ dbStudents # Roster =>
          /\ \A i \in DOMAIN rows :
               rows[i].uid # "" =>
                 \E s \in dbStudents :
                   s.uid = rows[i].uid /\ s.class = rows[i].class /\ s.name = rows[i].name
          /\ \A s \in dbStudents : s.uid # ""

\* An import went through although the file's first row has no uid.
C12_Witness ==
  /\ dbStudents # Roster
  /\ Len(csvFile.rows) = 2
  /\ csvFile.rows[1].uid = ""
  /\ csvFile.rows[1].class = "TYIT"
  /\ csvFile.rows[2].uid = "s3"

\* C13: the CSV import upserts by uid: the students table never holds two
\* rows of one uid, and importing a file that was already imported leaves the
\* table as the first import left it.
C13_UpsertByUid ==
  [][/\ \A s \in dbStudents', t \in dbStudents' : s.uid = t.uid => s = t
     /\ ((\E ok \in BOOLEAN : handleCsvUpload(csvFile, ok)) /\ dbStudents # Roster)
          => dbStudents' = dbStudents]_vars

\* The file was imported over a stored uid, the list showing the import came
\* back, and the file was imported again.
C13_Witness ==
  /\ dbStudents # Roster
  /\ \E s \in dbStudents : s.uid = "s1" /\ s.name = "b"
  /\ mcStudents = dbStudents
  /\ mcLoading
  /\ inflight # <<>>
  /\ inflight[1].op = "mcStudents"
  /\ inflight[1].data = dbStudents

\* C14: the semester an imported row stores is the number written in its
\* semester cell when the cell holds a number, and null when the file has no
\* semester column, the cell is empty or the cell is not a number.
C14_SemesterNumberOrNull ==
  \A s \in dbStudents : \A i \in DOMAIN csvFile.rows :
    LET row == csvFile.rows[i]
        cell == trim(row.semester)
        HoldsNumber == /\ "semester" \in csvFile.header
                       /\ cell # <<>>
                       /\ \A k \in DOMAIN cell : cell[k] \in {"1", "2"}
    IN (s.uid = row.uid /\ s \notin Roster) =>
         s.semester = IF HoldsNumber THEN <<Decimal(cell)>> ELSE <<>>

\* A file with a semester column and a two-digit semester was imported.
C14_Witness ==
  /\ "semester" \in csvFile.header
  /\ csvFile.rows[1].semester = <<"1", "2">>
  /\ \E s \in dbStudents : s.uid = "s3" /\ s.semester = <<12>>

\* C15: bulkDeleteByClass deletes every student of the selected class and
\* nothing else; with no class selected or the confirmation declined it
\* deletes nothing.
C15_BulkDeleteExactlyClass ==
  [][\A confirmed \in BOOLEAN, ok \in BOOLEAN :
       bulkDeleteByClass(confirmed, ok) =>
         /\ dbStudents' = IF bulkClass # "" /\ confirmed /\ ok
                          THEN {s \in dbStudents : s.class # bulkClass}
                          ELSE dbStudents
         /\ UNCHANGED <<dbFpVars, dbCepVars, dbReqVars, dbCcVars, dbAttendance>>]_vars

\* The list showed a student of FYIT and one of SYSD; FYIT was deleted and
\* the student of SYSD is what the table still holds.
C15_Witness ==
  /\ bulkClass = "FYIT"
  /\ \E s \in mcStudents : s.class = "FYIT"
  /\ \E s \in mcStudents : s.class = "SYSD"
  /\ dbStudents = {s \in mcStudents : s.class # "FYIT"}
  /\ inflight # <<>>
  /\ inflight[1].data = dbStudents

\* C16: bulkUpdateSemesterByClass issues no update when no class is selected,
\* when the semester is empty or not above 0, or when the confirmation is
\* declined; otherwise it sets the semester of exactly the selected class's
\* students and changes no other field of any student.
C16_BulkSemesterExactlyClass ==
  [][\A confirmed \in BOOLEAN, ok \in BOOLEAN :
       bulkUpdateSemesterByClass(confirmed, ok) =>
         LET Refused == \/ bulkClass = ""
                        \/ bulkNewSemester = <<>>
                        \/ (bulkNewSemester # <<>> /\ bulkNewSemester[1] <= 0)
                        \/ ~confirmed
         IN /\ dbStudents' =
                 IF Refused \/ ~ok THEN dbStudents
                 ELSE {s \in dbStudents : s.class # bulkClass}
                      \cup {[uid |-> s.uid, class |-> s.class, name |-> s.name,
                             semester |-> bulkNewSemester] :
                              s \in {t \in dbStudents : t.class = bulkClass}}
            /\ UNCHANGED <<dbFpVars, dbCepVars, dbReqVars, dbCcVars, dbAttendance>>]_vars

\* FYIT was moved to semester 2 while the student of SYSD stayed in semester 1.
C16_Witness ==
  /\ bulkClass = "FYIT"
  /\ bulkNewSemester = <<2>>
  /\ \E s \in dbStudents : s.class = "FYIT" /\ s.semester = <<2>>
  /\ \E s \in dbStudents : s.class = "SYSD" /\ s.semester = <<1>>
  /\ \A s \in dbStudents : s.class = "FYIT" => s.semester = <<2>>

\* C17: saveEdit rejects a draft whose class is not one of FYIT, FYSD, SYIT,
\* SYSD: no update is sent and the edit stays open; saveEdit never writes a
\* class outside these four.
C17_SaveEditValidClass ==
  [][\A ok \in BOOLEAN :
       saveEdit(ok) =>
         /\ editDraft.class \notin {"FYIT", "FYSD", "SYIT", "SYSD"} =>
              /\ dbStudents' = dbStudents
              /\ inflight' = inflight
              /\ editingUid' = editingUid
         /\ \A s \in dbStudents' \ dbStudents : s.class \in {"FYIT", "FYSD", "SYIT", "SYSD"}]_vars

\* A draft of class TYIT stayed open over an unchanged table, with nothing in
\* flight.
C17_Witness ==
  /\ editingUid # ""
  /\ editDraft.class = "TYIT"
  /\ editDraft.name = "b"
  /\ inflight = <<>>
  /\ \E s \in dbStudents : s.uid = editingUid /\ s.class = "TYIT" /\ s.name = "a"

C19_CountsOfSelectedActivity ==
  (TeacherDashboardLoaded /\ inflight = <<>> /\ selectedActivityId # 0) =>
    LET rows == {r \in dbAttendance : r.activity_id = selectedActivityId}
    IN attendanceCountsBySelected =
         [present |-> Cardinality({r \in rows : r.attendance_status = "present"}),
          absent |-> Cardinality({r \in rows : r.attendance_status = "absent"})]

\* The teacher has picked the second activity and every response has arrived.
C19_Witness ==
  /\ TeacherDashboardLoaded
  /\ inflight = <<>>
  /\ Len(activityOptions) = 2
  /\ selectedActivityId = activityOptions[2].id
  /\ \E r \in dbAttendance : r.activity_id = selectedActivityId

\* C20: the Co-Curricular form's submit updates the activity newActivity.id
\* when that id is set and inserts exactly one new activity when it is not;
\* the header's Add Activity / Cancel button always resets newActivity, and
\* only the Edit button of a listed activity sets its id, so a form opened
\* with the header button inserts a new row and modifies none.
C20_SubmitUpdatesOrInsertsOne ==
  [][/\ \A ok \in BOOLEAN :
          handleAddOrUpdateActivity(ok) =>
            LET Complete == newActivity.filled /\ newActivity.date # 0
                            /\ newActivity.classes # {}
            IN IF ~(Complete /\ ok) THEN dbActivities' = dbActivities
               ELSE IF newActivity.id = 0
               THEN /\ dbActivities \subseteq dbActivities'
                    /\ Cardinality(dbActivities' \ dbActivities) = 1
               ELSE /\ {a.id : a \in dbActivities'} = {a.id : a \in dbActivities}
                    /\ \A a \in dbActivities : a.id # newActivity.id => a \in dbActivities'
                    /\ \A a \in dbActivities' :
                         a.id = newActivity.id =>
                           a.assigned_class = newActivity.classes /\ a.date = newActivity.date
     /\ toggleActivityForm => newActivity' = EmptyActivity
     /\ newActivity'.id \notin {0, newActivity.id} =>
          \E a \in Range(activities) : handleEdit(a)]_vars

\* An activity was being edited, the header button closed and reopened the
\* form, and the submit of the reopened form added a second row beside the
\* listed one.
C20_Witness ==
  /\ screen = "co-curricular"
  /\ ccShowForm
  /\ newActivity.id = 0
  /\ newActivity.filled
  /\ Len(activities) = 1
  /\ Range(activities) \subseteq dbActivities
  /\ Cardinality(dbActivities) = 2
  /\ inflight # <<>>
  /\ inflight[1].done = "resetForm"

====
